---- MODULE Spec2Model ----
(***************************************************************************)
(* Essai reading-recommendation bot: retry wrapper, two-step curator,      *)
(* recommendation delivery and the taste (tag-weight) store.               *)
(*                                                                         *)
(* Three entry points carry their own copies of the code:                  *)
(*   "curator"  src/src/services/curator.js + bot/commands.js (polling)    *)
(*   "webhook"  the self-contained serverless handler (unnamed/part_011)   *)
(*   "gemini"   src/src/services/gemini.js (single-step generator)         *)
(***************************************************************************)
EXTENDS Integers, Sequences, FiniteSets, TLC

VARIABLES
    impl,           \* which copy of the code is running
    rb,             \* the retryWithBackoff invocation under observation
    maxRetries,     \* its maxRetries argument
    callLog,        \* outcome of every invocation of the wrapped call, in order
    caller,         \* who called generateRecommendation
    pc,             \* position inside handleRecommend / generateRecommendation
    preferences,    \* argument: the caller's array of {tag, weight} entries
    existingUrls,   \* argument: URLs already sent to the user
    existingTitles, \* argument: titles already sent to the user
    stageA,         \* retryWithBackoff state of the Stage A model call
    ideas,          \* parsed Stage A output
    ideasToUse,     \* ideas after the title safety net
    lookups,        \* Stage B: one findUrlForArticle promise per idea
    outOfOrder,     \* some lookup settled before a lookup of lower index
    articles,       \* allArticles: <<primary>> \o primary.alternatives
    thrown,         \* message of the error generateRecommendation threw
    verifyLog,      \* verifyLink calls made by handleRecommend, in order
    altIndex,       \* loop position of for (const alt of article.alternatives)
    delivered,      \* the article sent to the chat
    prefs,          \* user_preferences rows of the user, by tag
    userRec,        \* user_recommendations.rating of the delivered article
    upd,            \* the running rating handlers / updateTasteFromRating calls
    lastWrite,      \* the last upsert updateUserPreference made
    opCount,        \* handlers started so far
    lastOp,         \* the handler step taken last
    vf,             \* the verifyLink / findFirstValidLink call under observation
    recs,           \* rows of the recommendations table, in insertion order
    save,           \* the running saveRecommendation calls
    acc             \* access control: the user's row, the keyboards sent, the last update handled

retryVars == <<rb, maxRetries, callLog>>
pipeVars == <<caller, pc, preferences, existingUrls, existingTitles, stageA, ideas, ideasToUse,
              lookups, outOfOrder, articles, thrown, verifyLog, altIndex, delivered>>
prefVars == <<prefs, userRec, upd, lastWrite, opCount, lastOp>>
verifyVars == <<vf>>
saveVars == <<recs, save>>
accessVars == <<acc>>
vars == <<impl, rb, maxRetries, callLog, caller, pc, preferences, existingUrls, existingTitles,
          stageA, ideas, ideasToUse, lookups, outOfOrder, articles, thrown,
          verifyLog, altIndex, delivered, prefs, userRec, upd, lastWrite, opCount,
          lastOp, vf, recs, save, acc>>

\* ------------------------------------------------------------------ bounds
MaxRetriesArg == 3

\* ------------------------------------------------------- program constants
InitialDelayMs == 2000

\* ------------------------------------------------------------ error values
\* An error thrown by the model call: its .status and what its .message
\* contains ("rate", "quota", neither, or no message at all).
NoError == [status |-> -1, msg |-> "unset"]
E429 == [status |-> 429, msg |-> "other"]
ERateMsg == [status |-> 0, msg |-> "rate"]
EQuotaMsg == [status |-> 0, msg |-> "quota"]
EServer == [status |-> 500, msg |-> "other"]
ENoMsg == [status |-> 0, msg |-> "none"]
Errors == {E429, ERateMsg, EQuotaMsg, EServer, ENoMsg}

NoQuery == [base |-> 0, form |-> "none"]
NoUrl == [scheme |-> "invalid", host |-> "", path |-> "", q |-> NoQuery]
NoValue == [kind |-> "none", url |-> NoUrl, n |-> 0]
Content(k) == [kind |-> k, url |-> NoUrl, n |-> 0]

Impls == {"curator", "webhook", "gemini"}

RECURSIVE Pow2(_)
Pow2(k) == IF k <= 0 THEN 1 ELSE 2 * Pow2(k - 1)

\* default value of the maxRetries parameter in each copy
DefaultMaxRetries(i) == IF i = "gemini" THEN 3 ELSE 2

\* ------------------------------------------------------- retryWithBackoff
isRateLimit(i, error) ==
    IF i = "webhook"
    THEN \/ error.status = 429
         \/ error.msg = "rate"
    ELSE \/ error.status = 429
         \/ error.msg = "rate"
         \/ error.msg = "quota"

\* let lastError; for (let attempt = 1; attempt <= maxRetries; ...
RetryStart(m) ==
    [pc |-> IF 1 <= m THEN "call" ELSE "thrown",
     attempt |-> 1, calls |-> 0, delays |-> <<>>,
     lastError |-> NoError, value |-> NoValue]

\* return await fn();
RetryOnResult(st, val) ==
    [st EXCEPT !.pc = "returned", !.calls = @ + 1, !.value = val]

RetryOnError_OffByOne(i, st, m, error) ==
    IF isRateLimit(i, error) /\ st.attempt <= m
    THEN [st EXCEPT !.pc = "wait", !.calls = @ + 1, !.lastError = error,
                    !.delays = Append(@, InitialDelayMs * Pow2(st.attempt - 1))]
    ELSE [st EXCEPT !.pc = "thrown", !.calls = @ + 1, !.lastError = error]

\* catch (error) { lastError = error; if (isRateLimit && attempt < maxRetries)
\*   wait delay; else throw error; }
RetryOnError(i, st, m, error) ==
    IF isRateLimit(i, error) /\ st.attempt < m
    THEN [st EXCEPT !.pc = "wait", !.calls = @ + 1, !.lastError = error,
                    !.delays = Append(@, InitialDelayMs * Pow2(st.attempt - 1))]
    ELSE [st EXCEPT !.pc = "thrown", !.calls = @ + 1, !.lastError = error]

\* the setTimeout promise resolves; attempt++ and the loop condition
RetryOnTimer(st, m) ==
    [st EXCEPT !.attempt = @ + 1,
               !.pc = IF st.attempt + 1 <= m THEN "call" ELSE "thrown"]

RetryDone(st) == st.pc \in {"returned", "thrown"}


\* ------------------------------------------------------------- bounds (2)
MaxIdeas == 3
MaxWords == 4

\* ------------------------------------------------------------------- URLs
\* A URL string, by what new URL(url) makes of it: scheme "invalid" stands
\* for a string that new URL() rejects; q is the query of a search URL.
U1 == [scheme |-> "https", host |-> "aeon.co", path |-> "/essay", q |-> NoQuery]
U2 == [scheme |-> "http", host |-> "example.org", path |-> "/paper.pdf", q |-> NoQuery]
UFtp == [scheme |-> "ftp", host |-> "example.org", path |-> "/paper.pdf", q |-> NoQuery]
UText == [scheme |-> "invalid", host |-> "", path |-> "see the library", q |-> NoQuery]

\* ----------------------------------------------------------------- titles
\* A title string: the text it spells (base) and how it is written.
Title(i) == [base |-> i, form |-> "Mixed"]

\* the title of an idea object that has no title field
NoTitle == [base |-> 0, form |-> "undefined"]

\* t.toLowerCase().trim(); idea.title?.toLowerCase().trim() when there is none
Normalize(t) == IF t.form = "undefined" THEN t ELSE [base |-> t.base, form |-> "lower"]

Idea(i) == [id |-> i, title |-> Title(i)]
UntitledIdea(i) == [id |-> i, title |-> NoTitle]

InSeq(x, s) == \E k \in 1..Len(s) : s[k] = x

\* function isValidUrl(url)
isValidUrl(url) == url.scheme = "http" \/ url.scheme = "https"

\* `https://www.google.com/search?q=${encodeURIComponent(title author publication)}`
SearchUrl(idea) ==
    [scheme |-> "https", host |-> "www.google.com", path |-> "/search?q=",
     q |-> idea.title]

\* hostnames for which hostname.includes('google.com') holds
GoogleHosts == {"www.google.com", "scholar.google.com"}

\* function isSearchFallback(url) / isSearchFallbackUrl(url):
\* hostname.includes('google.com') && url.includes('/search?')
isSearchFallback_ExactHost(url) ==
    /\ url.scheme # "invalid"
    /\ url.host = "google.com"
    /\ url.path = "/search?q="

isSearchFallback(url) ==
    /\ url.scheme # "invalid"
    /\ url.host \in GoogleHosts
    /\ url.path = "/search?q="

\* ------------------------------------------------- Stage B: one idea lookup
\* The content the search model answers with, after parseURLResponse:
\*   "json"      an object with a url field
\*   "json-nourl" an object without url
\*   "garbage"   nothing parseURLResponse can use (it returns null)
\*   "empty"     no content at all
UrlContent(u) == [kind |-> "json", url |-> u, n |-> 0]
LookupContents ==
    {UrlContent(U1), UrlContent(U2), UrlContent(UFtp), UrlContent(UText),
     Content("json-nourl"), Content("garbage"), Content("empty")}
LookupErrors == {E429, EServer}

\* the retry wrapper of a lookup as the call starts (maxRetries = 2 in both copies)
LookupRetry == RetryStart(DefaultMaxRetries("curator"))
LookupPending == [state |-> "pending", st |-> LookupRetry, url |-> NoUrl, why |-> "pending"]

\* findUrlForArticle: what the promise resolves to once the wrapped call returned
findUrlForArticle_KeepBadUrl(content) ==
    IF content.kind = "empty"
    THEN [state |-> "null", st |-> LookupRetry, url |-> NoUrl, why |-> "empty"]
    ELSE IF content.kind = "garbage"
    THEN [state |-> "null", st |-> LookupRetry, url |-> NoUrl, why |-> "unparsable"]
    ELSE IF content.kind = "json-nourl"
    THEN [state |-> "null", st |-> LookupRetry, url |-> NoUrl, why |-> "nourl"]
    ELSE [state |-> "found", st |-> LookupRetry, url |-> content.url, why |-> "found"]

findUrlForArticle(content) ==
    IF content.kind = "empty"
    THEN [state |-> "null", st |-> LookupRetry, url |-> NoUrl, why |-> "empty"]
    ELSE IF content.kind = "garbage"
    THEN [state |-> "null", st |-> LookupRetry, url |-> NoUrl, why |-> "unparsable"]
    ELSE IF content.kind = "json-nourl"
    THEN [state |-> "null", st |-> LookupRetry, url |-> NoUrl, why |-> "nourl"]
    ELSE IF isValidUrl(content.url)
    THEN [state |-> "found", st |-> LookupRetry, url |-> content.url, why |-> "found"]
    ELSE [state |-> "null", st |-> LookupRetry, url |-> NoUrl, why |-> "badurl"]

\* findUrlForArticle: catch (error) { return null; }
findUrlForArticleCatch(st) ==
    [state |-> "null", st |-> LookupRetry, url |-> NoUrl,
     why |-> IF st.calls >= 2 THEN "exhausted" ELSE "exception"]

Settled(lk) == lk.state # "pending"

ArticleOf_FlagDropped(idea, lk) ==
    IF lk.state = "found"
    THEN [id |-> idea.id, title |-> idea.title, url |-> lk.url, is_search_fallback |-> FALSE]
    ELSE [id |-> idea.id, title |-> idea.title, url |-> SearchUrl(idea),
          is_search_fallback |-> FALSE]

\* the article findUrlsForIdeas / generateRecommendation builds for one result
ArticleOf(idea, lk) ==
    IF lk.state = "found"
    THEN [id |-> idea.id, title |-> idea.title, url |-> lk.url, is_search_fallback |-> FALSE]
    ELSE [id |-> idea.id, title |-> idea.title, url |-> SearchUrl(idea),
          is_search_fallback |-> TRUE]

ResolvedInIdeaOrder(is, lks) == [k \in 1..Len(is) |-> ArticleOf(is[k], lks[k])]

IsFallbackArticle(a) == a.is_search_fallback
IsFoundArticle(a) == ~a.is_search_fallback

findUrlsForIdeas_FallbacksFirst(i, is, lks) ==
    IF i = "webhook"
    THEN ResolvedInIdeaOrder(is, lks)
    ELSE SelectSeq(ResolvedInIdeaOrder(is, lks), IsFallbackArticle)
         \o SelectSeq(ResolvedInIdeaOrder(is, lks), IsFoundArticle)

\* findUrlsForIdeas + [...articlesWithUrls, ...articlesWithoutUrls] (curator.js)
\* results.forEach(...) articles.push(...)                        (webhook)
findUrlsForIdeas(i, is, lks) ==
    IF i = "webhook"
    THEN ResolvedInIdeaOrder(is, lks)
    ELSE SelectSeq(ResolvedInIdeaOrder(is, lks), IsFoundArticle)
         \o SelectSeq(ResolvedInIdeaOrder(is, lks), IsFallbackArticle)

\* the title safety net of generateRecommendation (curator.js only)
FreshIdeas(is, titles) ==
    LET seen == {Normalize(titles[k]) : k \in 1..Len(titles)}
        fresh(idea) == Normalize(idea.title) \notin seen
    IN SelectSeq(is, fresh)

IdeasToUse(i, is, titles) ==
    IF i = "webhook" THEN is
    ELSE IF Len(FreshIdeas(is, titles)) > 0 THEN FreshIdeas(is, titles) ELSE is

\* the duplicate-URL filter of generateRecommendation (curator.js only)
AllArticles_FallbackUnfiltered(i, as, urls) ==
    LET notSeen(a) == ~InSeq(a.url, urls)
    IN IF i = "webhook" THEN as
       ELSE IF Len(SelectSeq(as, notSeen)) > 0 THEN SelectSeq(as, notSeen) ELSE as

AllArticles(i, as, urls) ==
    LET notSeen(a) == ~InSeq(a.url, urls)
    IN IF i = "webhook" THEN as ELSE SelectSeq(as, notSeen)

\* ------------------------------------------------------------- verifyLink
\* The three verifiers: linkVerifier.js (used by the polling handlers, impl
\* "curator"), the one inside the two-step serverless handler (impl
\* "webhook") and the one of src/api/webhook.js (impl "api").
VerifierImpls == {"curator", "webhook", "api"}

UPay == [scheme |-> "https", host |-> "www.nytimes.com", path |-> "/essay", q |-> NoQuery]
UScholar == [scheme |-> "https", host |-> "scholar.google.com", path |-> "/scholar?q=",
             q |-> NoQuery]

\* hostname.includes(d) for some d of TRUSTED_DOMAINS / PAYWALL_DOMAINS
isTrustedDomain(i, url) ==
    /\ i # "api"
    /\ url.scheme # "invalid"
    /\ url.host \in {"aeon.co"}

isPaywallDomain(i, url) ==
    /\ i # "api"
    /\ url.scheme # "invalid"
    /\ url.host \in {"www.nytimes.com"}

\* What a request can come back with.  A status answer carries, for HEAD,
\* the content type ("html" or "pdf"); for GET 200, what the page holds:
\*   "match"     title with keyword overlap >= 0.3 with the expected title
\*   "mismatch"  title with no overlap with a multi-word expected title
\*   "unknown"   no title to compare, or an overlap in between
\*   "removed"   a short page matching a page-not-found pattern
\* A thrown request carries the error code.
NoProbe == [kind |-> "none", status |-> 0, detail |-> "none"]
Answer(status, detail) == [kind |-> "status", status |-> status, detail |-> detail]
Threw(code) == [kind |-> "threw", status |-> 0, detail |-> code]

HeadOutcomes ==
    {Answer(200, "html"), Answer(200, "pdf"), Answer(403, "html"), Answer(404, "html"),
     Answer(500, "html"), Threw("other")}
ErrorCodes == {"ENOTFOUND", "ECONNREFUSED", "ECONNABORTED", "SSL", "other"}
GetOutcomes ==
    {Answer(200, d) : d \in {"match", "mismatch", "unknown", "removed"}}
    \cup {Answer(st, "html") : st \in {304, 401, 403, 404, 418, 500}}
    \cup {Threw(c) : c \in ErrorCodes}

\* An expected title: how many whitespace-separated words it has and how many
\* of them are longer than 3 characters.  A page title: whether the page has
\* one, and how many of the expected title's long words occur in it.
ExpectedTitles == {t \in [words : 0..MaxWords, long : 0..MaxWords] : t.long <= t.words}
CandidateTitle == [words |-> 3, long |-> 2]
NoPage == [present |-> FALSE, hits |-> 0]
PageTitles(expected) ==
    {NoPage} \cup {[present |-> TRUE, hits |-> h] : h \in 0..expected.long}

\* titleMatchScore(expectedTitle, actualTitle) as the fraction num / den
titleMatchScore(expected, page) ==
    IF expected.words = 0 \/ ~page.present THEN [num |-> 0, den |-> 1]
    ELSE IF expected.long = 0 THEN [num |-> 1, den |-> 1]
    ELSE [num |-> page.hits, den |-> expected.long]

\* what the title check of a 2xx/3xx GET answer finds
TitleVerdict_HalfOverlap(expected, page) ==
    LET score == titleMatchScore(expected, page)
    IN  IF expected.words = 0 \/ ~page.present THEN "unknown"
        ELSE IF 10 * score.num >= 5 * score.den THEN "match"
        ELSE IF score.num = 0 /\ expected.words > 2 THEN "mismatch"
        ELSE "unknown"

TitleVerdict(expected, page) ==
    LET score == titleMatchScore(expected, page)
    IN  IF expected.words = 0 \/ ~page.present THEN "unknown"
        ELSE IF 10 * score.num >= 3 * score.den THEN "match"
        ELSE IF score.num = 0 /\ expected.words > 2 THEN "mismatch"
        ELSE "unknown"

NoResult == [isValid |-> FALSE, confidence |-> "none", isPaywall |-> FALSE,
             isSearchFallback |-> FALSE, reason |-> "none"]
Result(valid, confidence, paywall, reason) ==
    [isValid |-> valid, confidence |-> confidence, isPaywall |-> paywall,
     isSearchFallback |-> FALSE, reason |-> reason]

\* if (isSearchFallback(url)) return { isValid: true, confidence: 'low', ... }
SearchFallbackResult ==
    [isValid |-> TRUE, confidence |-> "low", isPaywall |-> FALSE,
     isSearchFallback |-> TRUE, reason |-> "Search fallback URL"]

\* does verifyLink return before any request
verifyLinkShortcut(i, url) == i # "api" /\ isSearchFallback(url)

\* linkVerifier.js, strategy 1: what the HEAD answer decides; done = FALSE is
\* the fall through to GET
verifyLinkOnHead(i, url, head) ==
    IF head.kind = "status" /\ head.status >= 200 /\ head.status < 400
       /\ head.detail = "pdf"
    THEN [done |-> TRUE, result |-> Result(TRUE, "high", FALSE, "none")]
    ELSE IF head.kind = "status" /\ head.status >= 200 /\ head.status < 400
            /\ (isTrustedDomain(i, url) \/ isPaywallDomain(i, url))
    THEN [done |-> TRUE,
          result |-> Result(TRUE, IF isTrustedDomain(i, url) THEN "high" ELSE "medium",
                            isPaywallDomain(i, url), "none")]
    ELSE IF head.kind = "status" /\ head.status \in {404, 410}
    THEN [done |-> TRUE, result |-> Result(FALSE, "high", FALSE, "Page not found")]
    ELSE [done |-> FALSE, result |-> NoResult]

\* the GET answer, linkVerifier.js strategy 2
verifyLinkOnGetSmart(i, url, get) ==
    IF get.kind = "status"
    THEN IF get.status \in {404, 410}
         THEN Result(FALSE, "high", FALSE, "Page not found")
         ELSE IF get.status = 200 /\ get.detail = "removed"
         THEN Result(FALSE, "medium", FALSE, "soft 404")
         ELSE IF get.status >= 200 /\ get.status < 400
         THEN Result(TRUE,
                     IF isTrustedDomain(i, url) \/ get.detail = "match" THEN "high"
                     ELSE IF get.detail = "mismatch" THEN "low" ELSE "medium",
                     isPaywallDomain(i, url),
                     IF get.detail = "mismatch" THEN "Title mismatch" ELSE "none")
         ELSE IF get.status \in {401, 403}
         THEN Result(TRUE, "medium", TRUE, "Login or subscription required")
         ELSE IF get.status >= 500
         THEN Result(FALSE, "low", FALSE, "Server error")
         ELSE Result(FALSE, "medium", FALSE, "HTTP status")
    ELSE IF get.detail = "ENOTFOUND"
         THEN Result(FALSE, "high", FALSE, "Domain not found")
         ELSE IF get.detail = "ECONNREFUSED"
         THEN Result(FALSE, "high", FALSE, "Connection refused")
         ELSE IF get.detail = "ECONNABORTED"
         THEN Result(FALSE, "low", FALSE, "Timeout")
         ELSE IF get.detail = "SSL"
         THEN Result(TRUE, "low", FALSE, "SSL certificate issue")
         ELSE IF isPaywallDomain(i, url) \/ isTrustedDomain(i, url)
         THEN Result(TRUE, "low", isPaywallDomain(i, url), "Verification blocked")
         ELSE Result(FALSE, "low", FALSE, "Network error")

\* the GET answer, verifier of the two-step serverless handler
verifyLinkOnGetWebhook(i, url, get) ==
    IF get.kind = "status"
    THEN IF get.status \in {404, 410}
         THEN Result(FALSE, "high", FALSE, "Page not found")
         ELSE IF get.status >= 200 /\ get.status < 400
         THEN Result(TRUE, IF isTrustedDomain(i, url) THEN "high" ELSE "medium",
                     isPaywallDomain(i, url), "none")
         ELSE IF get.status \in {401, 403}
         THEN Result(TRUE, "medium", TRUE, "Login required")
         ELSE Result(FALSE, "low", FALSE, "HTTP status")
    ELSE IF get.detail = "ENOTFOUND"
         THEN Result(FALSE, "high", FALSE, "Domain not found")
         ELSE IF isTrustedDomain(i, url) \/ isPaywallDomain(i, url)
         THEN Result(TRUE, "low", isPaywallDomain(i, url), "Trusted domain (check blocked)")
         ELSE Result(FALSE, "low", FALSE, "Network error")

\* the GET answer, verifier of src/api/webhook.js: the result object has
\* neither confidence nor isPaywall
verifyLinkOnGetApi(i, url, get) ==
    IF get.kind = "status"
    THEN Result(get.status >= 200 /\ get.status < 400, "undefined", FALSE, "none")
    ELSE Result(FALSE, "undefined", FALSE, "e.message")

verifyLinkOnGet_TrustedAlwaysValid(i, url, get) ==
    IF isTrustedDomain(i, url) THEN Result(TRUE, "high", FALSE, "none")
    ELSE IF i = "curator" THEN verifyLinkOnGetSmart(i, url, get)
    ELSE IF i = "webhook" THEN verifyLinkOnGetWebhook(i, url, get)
    ELSE verifyLinkOnGetApi(i, url, get)

verifyLinkOnGet(i, url, get) ==
    IF i = "curator" THEN verifyLinkOnGetSmart(i, url, get)
    ELSE IF i = "webhook" THEN verifyLinkOnGetWebhook(i, url, get)
    ELSE verifyLinkOnGetApi(i, url, get)

\* verifyLink(url, expectedTitle) from call to return, the server answering
\* HEAD with probe.head and GET with probe.get
verifyLink(i, url, probe) ==
    IF verifyLinkShortcut(i, url) THEN SearchFallbackResult
    ELSE IF i = "curator" /\ verifyLinkOnHead(i, url, probe.head).done
    THEN verifyLinkOnHead(i, url, probe.head).result
    ELSE verifyLinkOnGet(i, url, probe.get)

\* What the server answers in a recommendation request: the same to HEAD and
\* GET; "threw" is a connection the site resets.
NetOutcomes == {"200", "403", "404", "500", "threw"}
ProbeOf(net) ==
    IF net = "200" THEN [head |-> Answer(200, "html"), get |-> Answer(200, "match")]
    ELSE IF net = "403" THEN [head |-> Answer(403, "html"), get |-> Answer(403, "html")]
    ELSE IF net = "404" THEN [head |-> Answer(404, "html"), get |-> Answer(404, "html")]
    ELSE IF net = "500" THEN [head |-> Threw("other"), get |-> Answer(500, "html")]
    ELSE [head |-> Threw("other"), get |-> Threw("other")]

NoVerification == [id |-> 0, isValid |-> FALSE, confidence |-> "none", isPaywall |-> FALSE,
                   isSearchFallback |-> FALSE]

\* await verifyLink(article.url, article.title) in handleRecommend
VerifyArticle(i, a, net) ==
    LET r == verifyLink(i, a.url, ProbeOf(net))
    IN  [id |-> a.id, isValid |-> r.isValid, confidence |-> r.confidence,
         isPaywall |-> r.isPaywall, isSearchFallback |-> r.isSearchFallback]

NoArticle == [id |-> 0, title |-> Title(0), url |-> NoUrl, is_search_fallback |-> FALSE]
NoDelivery == [primary |-> NoArticle, alternatives |-> <<>>, verification |-> NoVerification]

\* the pipeline variables when no recommendation request is running
PipeIdle ==
    /\ caller = "none"
    /\ pc = "idle"
    /\ preferences = <<>>
    /\ existingUrls = <<>>
    /\ existingTitles = <<>>
    /\ stageA = LookupRetry
    /\ ideas = <<>>
    /\ ideasToUse = <<>>
    /\ lookups = <<>>
    /\ outOfOrder = FALSE
    /\ articles = <<>>
    /\ thrown = "none"
    /\ verifyLog = <<>>
    /\ altIndex = 0
    /\ delivered = NoDelivery


\* ------------------------------------------------------------- bounds (3)
MaxOps == 2
MaxCandidates == 2
MaxSaves == 2
MaxEvents == 6

\* ------------------------------------------------------------ taste store
Tags == {"Economics", "History", "Physics"}
\* tags of the delivered recommendation
RecTags == <<"Economics", "History">>
Procs == {1, 2}
NoRating == -1

Max(a, b) == IF a >= b THEN a ELSE b
Min(a, b) == IF a <= b THEN a ELSE b

NoRow == [present |-> FALSE, weight |-> 0, sample_count |-> 0]
Row(w, c) == [present |-> TRUE, weight |-> w, sample_count |-> c]

\* export function calculateImpact(rating)
calculateImpact_Offset(rating) == rating * 2 - 5

calculateImpact(rating) == (rating - 3) * 2

\* setUserPreference: const clampedWeight = Math.max(0, Math.min(100, weight))
setUserPreference(tag, weight) == Row(Max(0, Min(100, weight)), 1)

\* updateUserPreference: the row it upserts, from the row it read
updateUserPreference_NoUpperClamp(i, existing, weightDelta) ==
    LET currentWeight == IF existing.present THEN existing.weight ELSE 50
        currentCount == IF existing.present THEN existing.sample_count ELSE 0
    IN  Row(Max(0, currentWeight + weightDelta), currentCount + 1)

updateUserPreference(i, existing, weightDelta) ==
    LET currentWeight == IF existing.present THEN existing.weight ELSE 50
        currentCount == IF existing.present THEN existing.sample_count ELSE 0
        newWeight ==
            IF i = "webhook"
            THEN Max(0, Min(100, Max(0, Min(100, currentWeight)) + weightDelta))
            ELSE Max(0, Min(100, currentWeight + weightDelta))
    IN  Row(newWeight, currentCount + 1)

IdleProc == [pc |-> "idle", via |-> "none", rating |-> NoRating, impact |-> 0,
             queue |-> <<>>, existing |-> NoRow]
NoWrite == [tag |-> "none", current |-> 0, delta |-> 0, stored |-> 0]
NoOp == [kind |-> "none", p |-> 0, rating |-> NoRating, flag |-> "none", init |-> FALSE]

\* the taste-store variables when no rating or edit is in progress
PrefsIdle ==
    /\ prefs = [t \in Tags |-> NoRow]
    /\ userRec = NoRating
    /\ upd = [p \in Procs |-> IdleProc]
    /\ lastWrite = NoWrite
    /\ opCount = 0
    /\ lastOp = NoOp

\* the verifier and the recommendations table when nothing uses them
NoVerifyCall == [pc |-> "idle", entry |-> "none", candidates |-> <<>>, i |-> 0,
                 expected |-> [words |-> 0, long |-> 0], page |-> NoPage,
                 head |-> NoProbe, get |-> NoProbe, requests |-> <<>>, log |-> <<>>,
                 index |-> -1]
VerifyIdle == vf = NoVerifyCall

\* Access control when no update has been handled: the user has no row, the
\* owner holds no access request and the user no rating keyboard.
NoUpdate == [actor |-> "none", event |-> "none", statusBefore |-> "none",
             ranRecommend |-> FALSE, ratingStored |-> FALSE]
NoAccess == [status |-> "none", requests |-> 0, keyboards |-> 0, events |-> 0,
             last |-> NoUpdate]
AccessIdle == acc = NoAccess

\* One call of saveRecommendation: where it stands, the article's URL, the row
\* id its lookup found (0: none), the row id it returned (0: none) and the
\* number of calls this caller has started.
IdleSave == [pc |-> "idle", url |-> NoUrl, existing |-> 0, ret |-> 0, calls |-> 0]
SaveIdle ==
    /\ recs = <<>>
    /\ save = [p \in Procs |-> IdleSave]

\* ------------------------------------------- specification: one retry call
RetryContents == {Content("text"), Content("empty")}

RetryInit ==
    /\ impl \in Impls
    /\ maxRetries \in 1..MaxRetriesArg
    /\ rb = RetryStart(maxRetries)
    /\ callLog = <<>>
    /\ PipeIdle
    /\ PrefsIdle
    /\ VerifyIdle
    /\ SaveIdle
    /\ AccessIdle

RetryCallReturns ==
    /\ rb.pc = "call"
    /\ \E val \in RetryContents :
          /\ rb' = RetryOnResult(rb, val)
          /\ callLog' = Append(callLog, [ok |-> TRUE, value |-> val, error |-> NoError])
    /\ UNCHANGED <<impl, maxRetries>>
    /\ UNCHANGED pipeVars
    /\ UNCHANGED prefVars
    /\ UNCHANGED verifyVars
    /\ UNCHANGED saveVars
    /\ UNCHANGED accessVars

RetryCallThrows ==
    /\ rb.pc = "call"
    /\ \E error \in Errors :
          /\ rb' = RetryOnError(impl, rb, maxRetries, error)
          /\ callLog' = Append(callLog, [ok |-> FALSE, value |-> NoValue, error |-> error])
    /\ UNCHANGED <<impl, maxRetries>>
    /\ UNCHANGED pipeVars
    /\ UNCHANGED prefVars
    /\ UNCHANGED verifyVars
    /\ UNCHANGED saveVars
    /\ UNCHANGED accessVars

RetryTimerFires ==
    /\ rb.pc = "wait"
    /\ rb' = RetryOnTimer(rb, maxRetries)
    /\ UNCHANGED <<impl, maxRetries, callLog>>
    /\ UNCHANGED pipeVars
    /\ UNCHANGED prefVars
    /\ UNCHANGED verifyVars
    /\ UNCHANGED saveVars
    /\ UNCHANGED accessVars

RetryNext == RetryCallReturns \/ RetryCallThrows \/ RetryTimerFires

SpecRetry == RetryInit /\ [][RetryNext]_vars

\* ----------------------------- specification: one recommendation request
IdeasContent(k) == [kind |-> "ideas", url |-> NoUrl, n |-> k]
\* JSON whose first idea object carries no title field
UntitledContent(k) == [kind |-> "ideas-untitled", url |-> NoUrl, n |-> k]
StageAContents ==
    {IdeasContent(k) : k \in 0..MaxIdeas} \cup {UntitledContent(k) : k \in 1..2}
    \cup {Content("garbage"), Content("empty")}

\* parseJSON(content, 'Step 1') on a response that parses: the objects of
\* parsed.recommendations as they are, no field is checked
parseJSON(content) ==
    [k \in 1..content.n |->
        IF content.kind = "ideas-untitled" /\ k = 1 THEN UntitledIdea(k) ELSE Idea(k)]

AllSeenUrls == <<U1, U2>> \o [k \in 1..MaxIdeas |-> SearchUrl(Idea(k))]
ExistingUrlChoices == {<<>>, <<U1>>, AllSeenUrls}
ExistingTitleChoices ==
    {<<>>, <<[base |-> 1, form |-> "UPPER "]>>,
     [k \in 1..MaxIdeas |-> [base |-> k, form |-> "Mixed"]]}

\* preferences.sort((a, b) => b.weight - a.weight): Array.prototype.sort is
\* stable and sorts the array it is called on
RECURSIVE InsertByWeight(_, _)
InsertByWeight(x, sorted) ==
    IF sorted = <<>> THEN <<x>>
    ELSE IF Head(sorted).weight >= x.weight
    THEN <<Head(sorted)>> \o InsertByWeight(x, Tail(sorted))
    ELSE <<x>> \o sorted

RECURSIVE SortByWeight(_)
SortByWeight(ps) ==
    IF ps = <<>> THEN <<>>
    ELSE InsertByWeight(ps[Len(ps)], SortByWeight(SubSeq(ps, 1, Len(ps) - 1)))

\* the preference arrays a caller hands over: getTopPreferences returns the
\* rows ordered by weight, descending; another caller of the exported
\* function may hand over any array
TopPrefs == <<[tag |-> "History", weight |-> 60], [tag |-> "Economics", weight |-> 40]>>
PreferenceChoices(c) ==
    IF c = "handleRecommend" THEN {TopPrefs}
    ELSE {TopPrefs, <<TopPrefs[2], TopPrefs[1]>>}

RecommendInit ==
    /\ impl \in {"curator", "webhook"}
    /\ caller \in {"handleRecommend", "export"}
    /\ caller = "export" => impl = "curator"
    /\ preferences \in PreferenceChoices(caller)
    /\ existingUrls \in ExistingUrlChoices
    /\ existingTitles \in (IF caller = "export" THEN ExistingTitleChoices ELSE {<<>>})
    /\ pc = "called"
    /\ stageA = RetryStart(DefaultMaxRetries(impl))
    /\ ideas = <<>>
    /\ ideasToUse = <<>>
    /\ lookups = <<>>
    /\ outOfOrder = FALSE
    /\ articles = <<>>
    /\ thrown = "none"
    /\ verifyLog = <<>>
    /\ altIndex = 0
    /\ delivered = NoDelivery
    /\ maxRetries = DefaultMaxRetries(impl)
    /\ rb = RetryStart(maxRetries)
    /\ callLog = <<>>
    /\ PrefsIdle
    /\ VerifyIdle
    /\ SaveIdle
    /\ AccessIdle

\* generateRecommendation is entered: curateIdeas builds the prompt from the
\* sorted preferences and starts the Stage A model call
curateIdeas ==
    /\ pc = "called"
    /\ preferences' = SortByWeight(preferences)
    /\ stageA' = RetryStart(DefaultMaxRetries(impl))
    /\ pc' = "stageA"
    /\ UNCHANGED <<impl, caller, existingUrls, existingTitles, ideas, ideasToUse, lookups,
                   outOfOrder, articles, thrown, verifyLog, altIndex, delivered>>
    /\ UNCHANGED retryVars
    /\ UNCHANGED prefVars
    /\ UNCHANGED verifyVars
    /\ UNCHANGED saveVars
    /\ UNCHANGED accessVars

\* curateIdeas: the model call returns; parseJSON; the checks and the title
\* filter of generateRecommendation; ideas.map(idea => findUrlForArticle(idea))
StageAReturns ==
    /\ pc = "stageA"
    /\ stageA.pc = "call"
    /\ \E content \in StageAContents :
          /\ stageA' = RetryOnResult(stageA, content)
          /\ IF content.kind = "empty"
             THEN /\ thrown' = "Empty response from Groq (Step 1)"
                  /\ pc' = "failed"
                  /\ UNCHANGED <<ideas, ideasToUse, lookups>>
             ELSE IF content.kind = "garbage"
             THEN /\ thrown' = "Failed to parse Step 1 response"
                  /\ pc' = "failed"
                  /\ UNCHANGED <<ideas, ideasToUse, lookups>>
             ELSE IF Len(parseJSON(content)) = 0
             THEN /\ thrown' = "No ideas generated in Step 1"
                  /\ pc' = "failed"
                  /\ ideas' = parseJSON(content)
                  /\ UNCHANGED <<ideasToUse, lookups>>
             ELSE /\ ideas' = parseJSON(content)
                  /\ ideasToUse' = IdeasToUse(impl, ideas', existingTitles)
                  /\ lookups' = [k \in 1..Len(ideasToUse') |-> LookupPending]
                  /\ pc' = "stageB"
                  /\ UNCHANGED thrown
    /\ UNCHANGED <<impl, caller, preferences, existingUrls, existingTitles, outOfOrder, articles,
                   verifyLog, altIndex, delivered>>
    /\ UNCHANGED retryVars
    /\ UNCHANGED verifyVars
    /\ UNCHANGED saveVars
    /\ UNCHANGED accessVars
    /\ UNCHANGED prefVars

\* curateIdeas: the model call throws
StageAThrows ==
    /\ pc = "stageA"
    /\ stageA.pc = "call"
    /\ \E err \in LookupErrors :
          /\ stageA' = RetryOnError(impl, stageA, DefaultMaxRetries(impl), err)
          /\ IF stageA'.pc = "thrown"
             THEN thrown' = "model call failed (Step 1)" /\ pc' = "failed"
             ELSE UNCHANGED <<thrown, pc>>
    /\ UNCHANGED <<impl, caller, preferences, existingUrls, existingTitles, ideas, ideasToUse, lookups,
                   outOfOrder, articles, verifyLog, altIndex, delivered>>
    /\ UNCHANGED retryVars
    /\ UNCHANGED verifyVars
    /\ UNCHANGED saveVars
    /\ UNCHANGED accessVars
    /\ UNCHANGED prefVars

StageATimer ==
    /\ pc = "stageA"
    /\ stageA.pc = "wait"
    /\ stageA' = RetryOnTimer(stageA, DefaultMaxRetries(impl))
    /\ UNCHANGED <<impl, caller, pc, preferences, existingUrls, existingTitles, ideas, ideasToUse, lookups,
                   outOfOrder, articles, thrown, verifyLog, altIndex, delivered>>
    /\ UNCHANGED retryVars
    /\ UNCHANGED verifyVars
    /\ UNCHANGED saveVars
    /\ UNCHANGED accessVars
    /\ UNCHANGED prefVars

EarlierUnsettled(k) == \E j \in 1..(k - 1) : ~Settled(lookups[j])

\* findUrlForArticle(ideasToUse[k]): the search-model call returns
LookupReturns(k) ==
    /\ pc = "stageB"
    /\ lookups[k].state = "pending"
    /\ lookups[k].st.pc = "call"
    /\ \E content \in LookupContents :
          lookups' = [lookups EXCEPT
                        ![k] = findUrlForArticle(RetryOnResult(lookups[k].st, content).value)]
    /\ outOfOrder' = (outOfOrder \/ EarlierUnsettled(k))
    /\ UNCHANGED <<impl, caller, pc, preferences, existingUrls, existingTitles, stageA, ideas, ideasToUse,
                   articles, thrown, verifyLog, altIndex, delivered>>
    /\ UNCHANGED retryVars
    /\ UNCHANGED verifyVars
    /\ UNCHANGED saveVars
    /\ UNCHANGED accessVars
    /\ UNCHANGED prefVars

\* findUrlForArticle(ideasToUse[k]): the search-model call throws
LookupThrows(k) ==
    /\ pc = "stageB"
    /\ lookups[k].state = "pending"
    /\ lookups[k].st.pc = "call"
    /\ \E err \in LookupErrors :
          LET st == RetryOnError(impl, lookups[k].st, DefaultMaxRetries(impl), err)
          IN  /\ lookups' = [lookups EXCEPT
                               ![k] = IF st.pc = "thrown"
                                      THEN findUrlForArticleCatch(st)
                                      ELSE [lookups[k] EXCEPT !.st = st]]
              /\ outOfOrder' = (outOfOrder \/ (st.pc = "thrown" /\ EarlierUnsettled(k)))
    /\ UNCHANGED <<impl, caller, pc, preferences, existingUrls, existingTitles, stageA, ideas, ideasToUse,
                   articles, thrown, verifyLog, altIndex, delivered>>
    /\ UNCHANGED retryVars
    /\ UNCHANGED verifyVars
    /\ UNCHANGED saveVars
    /\ UNCHANGED accessVars
    /\ UNCHANGED prefVars

LookupTimer(k) ==
    /\ pc = "stageB"
    /\ lookups[k].state = "pending"
    /\ lookups[k].st.pc = "wait"
    /\ lookups' = [lookups EXCEPT ![k] = [lookups[k] EXCEPT !.st = RetryOnTimer(lookups[k].st, DefaultMaxRetries(impl))]]
    /\ UNCHANGED <<impl, caller, pc, preferences, existingUrls, existingTitles, stageA, ideas, ideasToUse,
                   outOfOrder, articles, thrown, verifyLog, altIndex, delivered>>
    /\ UNCHANGED retryVars
    /\ UNCHANGED verifyVars
    /\ UNCHANGED saveVars
    /\ UNCHANGED accessVars
    /\ UNCHANGED prefVars

\* Promise.allSettled resolves; the rest of generateRecommendation
generateRecommendation ==
    /\ pc = "stageB"
    /\ \A k \in 1..Len(lookups) : Settled(lookups[k])
    /\ LET allArticles ==
             AllArticles(impl, findUrlsForIdeas(impl, ideasToUse, lookups), existingUrls)
       IN  IF Len(allArticles) = 0
           THEN /\ thrown' = "No articles found after deduplication"
                /\ pc' = "failed"
                /\ UNCHANGED articles
           ELSE /\ articles' = allArticles
                /\ pc' = "generated"
                /\ UNCHANGED thrown
    /\ UNCHANGED <<impl, caller, preferences, existingUrls, existingTitles, stageA, ideas, ideasToUse, lookups,
                   outOfOrder, verifyLog, altIndex, delivered>>
    /\ UNCHANGED retryVars
    /\ UNCHANGED verifyVars
    /\ UNCHANGED saveVars
    /\ UNCHANGED accessVars
    /\ UNCHANGED prefVars

Alternatives == Tail(articles)

\* let deliveredArticle = article: what is sent when nothing else is chosen
KeepPrimary_LastAlternative ==
    [primary |-> articles[Len(articles)], alternatives |-> Tail(articles)]

KeepPrimary == [primary |-> articles[1], alternatives |-> Tail(articles)]

\* handleRecommend: verifyLink(article.url, article.title) answers; either the
\* loop over the alternatives starts or the article is delivered
VerifyPrimary ==
    /\ pc = "generated"
    /\ caller = "handleRecommend"
    /\ \E net \in NetOutcomes :
          LET verification == VerifyArticle(impl, articles[1], net)
          IN  /\ verifyLog' = <<verification>>
              /\ IF ~verification.isValid /\ Len(Alternatives) > 0
                 THEN /\ pc' = "verifyAlts"
                      /\ altIndex' = 1
                      /\ UNCHANGED delivered
                 ELSE /\ pc' = "delivered"
                      /\ delivered' = [primary |-> KeepPrimary.primary,
                                       alternatives |-> KeepPrimary.alternatives,
                                       verification |-> verification]
                      /\ UNCHANGED altIndex
    /\ lookups' = <<>>
    /\ UNCHANGED <<impl, caller, preferences, existingUrls, existingTitles, stageA, ideas, ideasToUse,
                   outOfOrder, articles, thrown>>
    /\ UNCHANGED retryVars
    /\ UNCHANGED verifyVars
    /\ UNCHANGED saveVars
    /\ UNCHANGED accessVars
    /\ UNCHANGED prefVars

\* { ...alt, alternatives: article.alternatives.filter(a => a !== alt) }
Promote_KeepAll(alt) == [primary |-> alt, alternatives |-> Alternatives]

Promote_FirstAlternative(alt) == [primary |-> Alternatives[1], alternatives |-> Tail(Alternatives)]

Promote(alt) ==
    LET other(a) == a.id # alt.id
    IN [primary |-> alt, alternatives |-> SelectSeq(Alternatives, other)]

\* handleRecommend: verifyLink(alt.url, alt.title) answers for the current alt
VerifyAlt ==
    /\ pc = "verifyAlts"
    /\ \E net \in NetOutcomes :
          LET alt == Alternatives[altIndex]
              altVerify == VerifyArticle(impl, alt, net)
          IN  /\ verifyLog' = Append(verifyLog, altVerify)
              /\ IF altVerify.isValid
                 THEN /\ delivered' = [primary |-> Promote(alt).primary,
                                       alternatives |-> Promote(alt).alternatives,
                                       verification |-> altVerify]
                      /\ pc' = "delivered"
                      /\ UNCHANGED altIndex
                 ELSE IF altIndex < Len(Alternatives)
                 THEN /\ altIndex' = altIndex + 1
                      /\ UNCHANGED <<pc, delivered>>
                 ELSE /\ delivered' = [primary |-> KeepPrimary.primary,
                                       alternatives |-> KeepPrimary.alternatives,
                                       verification |-> verifyLog[1]]
                      /\ pc' = "delivered"
                      /\ UNCHANGED altIndex
    /\ UNCHANGED <<impl, caller, preferences, existingUrls, existingTitles, stageA, ideas, ideasToUse, lookups,
                   outOfOrder, articles, thrown>>
    /\ UNCHANGED retryVars
    /\ UNCHANGED verifyVars
    /\ UNCHANGED saveVars
    /\ UNCHANGED accessVars
    /\ UNCHANGED prefVars

RecommendNext ==
    \/ curateIdeas
    \/ StageAReturns
    \/ StageAThrows
    \/ StageATimer
    \/ \E k \in 1..Len(lookups) : LookupReturns(k)
    \/ \E k \in 1..Len(lookups) : LookupThrows(k)
    \/ \E k \in 1..Len(lookups) : LookupTimer(k)
    \/ generateRecommendation
    \/ VerifyPrimary
    \/ VerifyAlt

SpecRecommend == RecommendInit /\ [][RecommendNext]_vars

\* ------------------------------------- specification: ratings and tag edits
\* weights a caller may hand to setUserPreference
SetWeights == {-7, 2, 98, 130}

\* initializeDefaultTags: setUserPreference(userId, tag, 50) for every default tag
initializeDefaultTags == [t \in Tags |-> setUserPreference(t, 50)]

\* getTopPreferences as handleRecommend calls it: the rows it leaves behind.
\* tasteLearner.js initializes the default tags when the user has no row;
\* the serverless handler only selects.
getTopPreferences(i, ps) ==
    IF i = "curator" /\ (\A t \in Tags : ~ps[t].present)
    THEN initializeDefaultTags
    ELSE ps

\* after /start: initializeDefaultTags stored every default tag at 50
PrefsInit ==
    /\ impl \in {"curator", "webhook"}
    /\ prefs = initializeDefaultTags
    /\ userRec = NoRating
    /\ upd = [p \in Procs |-> IdleProc]
    /\ lastWrite = NoWrite
    /\ opCount = 0
    /\ lastOp = NoOp
    /\ maxRetries = DefaultMaxRetries(impl)
    /\ rb = RetryStart(maxRetries)
    /\ callLog = <<>>
    /\ PipeIdle
    /\ VerifyIdle
    /\ SaveIdle
    /\ AccessIdle

\* updateTasteFromRating(userId, tags, rating) up to its first await
updateTasteFromRating_Divided(via, rating) ==
    IF calculateImpact(rating) = 0
    THEN [pc |-> "idle", via |-> via, rating |-> rating, impact |-> calculateImpact(rating),
          queue |-> <<>>, existing |-> NoRow]
    ELSE [pc |-> "select", via |-> via, rating |-> rating,
          impact |-> calculateImpact(rating) \div Len(RecTags),
          queue |-> RecTags, existing |-> NoRow]

updateTasteFromRating(via, rating) ==
    IF calculateImpact(rating) = 0
    THEN [pc |-> "idle", via |-> via, rating |-> rating, impact |-> calculateImpact(rating),
          queue |-> <<>>, existing |-> NoRow]
    ELSE [pc |-> "select", via |-> via, rating |-> rating, impact |-> calculateImpact(rating),
          queue |-> RecTags, existing |-> NoRow]

\* if (rating > 0 && userRec.recommendations?.tags) await updateTasteFromRating(...)
handleRatingCallback_NoSkipTest(rating) == updateTasteFromRating("callback", rating)

handleRatingCallback(rating) ==
    IF rating > 0
    THEN updateTasteFromRating("callback", rating)
    ELSE [IdleProc EXCEPT !.via = "callback", !.rating = rating]

\* the callback data the rating keyboards carry: rate:<id>:<0..5> and
\* rate:<id>:0:reroll
CallbackData ==
    {[rating |-> r, flag |-> "none"] : r \in 0..5} \cup {[rating |-> 0, flag |-> "reroll"]}

\* handleRatingCallback / processCallback for "rate:<id>:<rating>[:reroll]":
\* updateRating stores the rating, the taste update starts unless the rating
\* is 0, and a reroll goes on into handleRecommend, whose getTopPreferences
\* may initialize the default tags
RatingCallback(p, data) ==
    /\ upd[p].pc = "idle"
    /\ opCount < MaxOps
    /\ opCount' = opCount + 1
    /\ userRec' = data.rating
    /\ upd' = [upd EXCEPT ![p] = handleRatingCallback(data.rating)]
    /\ prefs' = IF data.flag = "reroll" THEN getTopPreferences(impl, prefs) ELSE prefs
    /\ lastOp' = [kind |-> "rate", p |-> p, rating |-> data.rating, flag |-> data.flag,
                   init |-> (data.flag = "reroll" /\ getTopPreferences(impl, prefs) # prefs)]
    /\ UNCHANGED <<impl, lastWrite>>
    /\ UNCHANGED retryVars
    /\ UNCHANGED verifyVars
    /\ UNCHANGED saveVars
    /\ UNCHANGED accessVars
    /\ UNCHANGED pipeVars

\* the exported updateTasteFromRating called directly
TasteFromRatingCall(p, rating) ==
    /\ upd[p].pc = "idle"
    /\ opCount < MaxOps
    /\ opCount' = opCount + 1
    /\ upd' = [upd EXCEPT ![p] = updateTasteFromRating("export", rating)]
    /\ lastOp' = [kind |-> "taste", p |-> p, rating |-> rating, flag |-> "none", init |-> FALSE]
    /\ UNCHANGED <<impl, prefs, userRec, lastWrite>>
    /\ UNCHANGED retryVars
    /\ UNCHANGED verifyVars
    /\ UNCHANGED saveVars
    /\ UNCHANGED accessVars
    /\ UNCHANGED pipeVars

\* updateUserPreference: the select of the existing row returns
UpdateSelect(p) ==
    /\ upd[p].pc = "select"
    /\ upd' = [upd EXCEPT ![p].pc = "upsert", ![p].existing = prefs[Head(upd[p].queue)]]
    /\ lastOp' = [kind |-> "select", p |-> p, rating |-> upd[p].rating, flag |-> "none", init |-> FALSE]
    /\ UNCHANGED <<impl, prefs, userRec, lastWrite, opCount>>
    /\ UNCHANGED retryVars
    /\ UNCHANGED verifyVars
    /\ UNCHANGED saveVars
    /\ UNCHANGED accessVars
    /\ UNCHANGED pipeVars

UpdateUpsert_Reread(p) ==
    /\ upd[p].pc = "upsert"
    /\ LET tag == Head(upd[p].queue)
           row == updateUserPreference(impl, prefs[tag], upd[p].impact)
       IN  /\ prefs' = [prefs EXCEPT ![tag] = row]
           /\ lastWrite' = [tag |-> tag,
                            current |-> IF upd[p].existing.present
                                        THEN upd[p].existing.weight ELSE 50,
                            delta |-> upd[p].impact, stored |-> row.weight]
           /\ upd' = [upd EXCEPT ![p].queue = Tail(@), ![p].existing = NoRow,
                                 ![p].pc = IF Len(upd[p].queue) > 1 THEN "select" ELSE "idle"]
    /\ lastOp' = [kind |-> "upsert", p |-> p, rating |-> upd[p].rating, flag |-> "none", init |-> FALSE]
    /\ UNCHANGED <<impl, userRec, opCount>>
    /\ UNCHANGED retryVars
    /\ UNCHANGED verifyVars
    /\ UNCHANGED saveVars
    /\ UNCHANGED accessVars
    /\ UNCHANGED pipeVars

\* updateUserPreference: the upsert is applied; the for loop moves on
UpdateUpsert(p) ==
    /\ upd[p].pc = "upsert"
    /\ LET tag == Head(upd[p].queue)
           row == updateUserPreference(impl, upd[p].existing, upd[p].impact)
       IN  /\ prefs' = [prefs EXCEPT ![tag] = row]
           /\ lastWrite' = [tag |-> tag,
                            current |-> IF upd[p].existing.present
                                        THEN upd[p].existing.weight ELSE 50,
                            delta |-> upd[p].impact, stored |-> row.weight]
           /\ upd' = [upd EXCEPT ![p].queue = Tail(@), ![p].existing = NoRow,
                                 ![p].pc = IF Len(upd[p].queue) > 1 THEN "select" ELSE "idle"]
    /\ lastOp' = [kind |-> "upsert", p |-> p, rating |-> upd[p].rating, flag |-> "none", init |-> FALSE]
    /\ UNCHANGED <<impl, userRec, opCount>>
    /\ UNCHANGED retryVars
    /\ UNCHANGED verifyVars
    /\ UNCHANGED saveVars
    /\ UNCHANGED accessVars
    /\ UNCHANGED pipeVars

\* setUserPreference(userId, tag, weight)
SetUserPreference(tag, weight) ==
    /\ opCount < MaxOps
    /\ opCount' = opCount + 1
    /\ prefs' = [prefs EXCEPT ![tag] = setUserPreference(tag, weight)]
    /\ lastOp' = [kind |-> "set", p |-> 0, rating |-> NoRating, flag |-> "none", init |-> FALSE]
    /\ UNCHANGED <<impl, userRec, upd, lastWrite>>
    /\ UNCHANGED retryVars
    /\ UNCHANGED verifyVars
    /\ UNCHANGED saveVars
    /\ UNCHANGED accessVars
    /\ UNCHANGED pipeVars

\* resetUserPreferences(userId)
ResetUserPreferences ==
    /\ opCount < MaxOps
    /\ opCount' = opCount + 1
    /\ prefs' = [t \in Tags |-> NoRow]
    /\ lastOp' = [kind |-> "reset", p |-> 0, rating |-> NoRating, flag |-> "none", init |-> FALSE]
    /\ UNCHANGED <<impl, userRec, upd, lastWrite>>
    /\ UNCHANGED retryVars
    /\ UNCHANGED verifyVars
    /\ UNCHANGED saveVars
    /\ UNCHANGED accessVars
    /\ UNCHANGED pipeVars

PrefsNext ==
    \/ \E p \in Procs, data \in CallbackData : RatingCallback(p, data)
    \/ \E p \in Procs, rating \in 0..5 : TasteFromRatingCall(p, rating)
    \/ \E p \in Procs : UpdateSelect(p)
    \/ \E p \in Procs : UpdateUpsert(p)
    \/ \E tag \in Tags, weight \in SetWeights : SetUserPreference(tag, weight)
    \/ ResetUserPreferences

SpecPrefs == PrefsInit /\ [][PrefsNext]_vars

\* ------------------------- specification: verifyLink and findFirstValidLink
VerifyUrls == {U1, U2, UPay, UScholar, UText, SearchUrl(Idea(1))}
CandidateLists == UNION {[1..k -> VerifyUrls] : k \in 0..MaxCandidates}

\* verifyLink is called for candidate st.i: it returns at once for a search
\* fallback URL, otherwise it sends its first request
VerifyBegin(i, st) ==
    IF verifyLinkShortcut(i, st.candidates[st.i])
    THEN [st EXCEPT !.pc = "returned", !.log = Append(@, SearchFallbackResult),
                    !.index = st.i - 1, !.head = NoProbe, !.get = NoProbe,
                    !.page = NoPage]
    ELSE [st EXCEPT !.pc = IF i = "curator" THEN "head" ELSE "get",
                    !.requests = Append(@, [k |-> st.i,
                                            method |-> IF i = "curator" THEN "HEAD" ELSE "GET"]),
                    !.head = NoProbe, !.get = NoProbe, !.page = NoPage]

\* verifyLink returned result for candidate st.i; findFirstValidLink's loop:
\* if (verification.isValid) return { article, verification, index: i };
\* past the last candidate, return null (index -1 here)
VerifyConclude_OneBased(i, st, result) ==
    IF st.entry = "verifyLink" \/ result.isValid
    THEN [st EXCEPT !.log = Append(@, result), !.pc = "returned", !.index = st.i]
    ELSE IF st.i = Len(st.candidates)
    THEN [st EXCEPT !.log = Append(@, result), !.pc = "returned", !.index = -1]
    ELSE VerifyBegin(i, [st EXCEPT !.log = Append(@, result), !.i = st.i + 1])

VerifyConclude(i, st, result) ==
    IF st.entry = "verifyLink" \/ result.isValid
    THEN [st EXCEPT !.log = Append(@, result), !.pc = "returned", !.index = st.i - 1]
    ELSE IF st.i = Len(st.candidates)
    THEN [st EXCEPT !.log = Append(@, result), !.pc = "returned", !.index = -1]
    ELSE VerifyBegin(i, [st EXCEPT !.log = Append(@, result), !.i = st.i + 1])

VerifyStart(i, entry, cands, expected) ==
    IF Len(cands) = 0
    THEN [NoVerifyCall EXCEPT !.pc = "returned", !.entry = entry, !.expected = expected]
    ELSE VerifyBegin(i, [NoVerifyCall EXCEPT !.entry = entry, !.candidates = cands,
                                             !.i = 1, !.expected = expected])

VerifyInit ==
    /\ impl \in VerifierImpls
    /\ \E entry \in {"verifyLink", "findFirstValidLink"}, cands \in CandidateLists,
          expected \in ExpectedTitles :
          /\ entry = "verifyLink" => Len(cands) = 1
          /\ entry = "findFirstValidLink" => (impl = "curator" /\ expected = CandidateTitle)
          /\ vf = VerifyStart(impl, entry, cands, expected)
    /\ maxRetries = DefaultMaxRetries(impl)
    /\ rb = RetryStart(maxRetries)
    /\ callLog = <<>>
    /\ PipeIdle
    /\ PrefsIdle
    /\ SaveIdle
    /\ AccessIdle

\* a request to a string that is no URL can only throw
CanAnswer(url, probe) == url.scheme = "invalid" => probe = Threw("other")

\* the page title goes with the answer: only a 2xx/3xx page that is no soft
\* 404 has its title compared, and the comparison is the answer's detail
PageOf(get, expected, page) ==
    IF get.kind = "status" /\ get.status = 200 /\ get.detail # "removed"
    THEN get.detail = TitleVerdict(expected, page)
    ELSE page = NoPage

\* linkVerifier.js, strategy 1: axios.head(url) settles
VerifyHeadAnswers ==
    /\ vf.pc = "head"
    /\ \E head \in HeadOutcomes :
          LET url == vf.candidates[vf.i]
              h == verifyLinkOnHead(impl, url, head)
              st == [vf EXCEPT !.head = head]
          IN  /\ CanAnswer(url, head)
              /\ vf' = IF h.done
                       THEN VerifyConclude(impl, st, h.result)
                       ELSE [st EXCEPT !.pc = "get",
                                       !.requests = Append(@, [k |-> vf.i, method |-> "GET"])]
    /\ UNCHANGED impl
    /\ UNCHANGED retryVars
    /\ UNCHANGED pipeVars
    /\ UNCHANGED prefVars
    /\ UNCHANGED saveVars
    /\ UNCHANGED accessVars

\* axios.get(url) settles
VerifyGetAnswers ==
    /\ vf.pc = "get"
    /\ \E get \in GetOutcomes, page \in PageTitles(vf.expected) :
          LET url == vf.candidates[vf.i]
          IN  /\ CanAnswer(url, get)
              /\ PageOf(get, vf.expected, page)
              /\ vf' = VerifyConclude(impl, [vf EXCEPT !.get = get, !.page = page],
                                      verifyLinkOnGet(impl, url, get))
    /\ UNCHANGED impl
    /\ UNCHANGED retryVars
    /\ UNCHANGED pipeVars
    /\ UNCHANGED prefVars
    /\ UNCHANGED saveVars
    /\ UNCHANGED accessVars

VerifyNext == VerifyHeadAnswers \/ VerifyGetAnswers

SpecVerify == VerifyInit /\ [][VerifyNext]_vars

\* --------------------------------------- specification: saveRecommendation
\* The recommendations table is the sequence recs of its rows in insertion
\* order; a row's id is its position.
SaveUrls == {U1, U2}

\* schema: recommendations.url is TEXT NOT NULL with a plain index, no UNIQUE
UrlIsUnique == FALSE

RowsWithUrl(url) == {k \in 1..Len(recs) : recs[k].url = url}

\* .select('id').eq('url', url).single(): data is the row when exactly one
\* row matches, null (with an error the caller ignores) otherwise
selectSingle(url) ==
    IF Cardinality(RowsWithUrl(url)) = 1
    THEN CHOOSE k \in RowsWithUrl(url) : TRUE
    ELSE 0

SaveInit ==
    /\ impl \in {"curator", "webhook"}
    /\ recs = <<>>
    /\ save = [p \in Procs |-> IdleSave]
    /\ maxRetries = DefaultMaxRetries(impl)
    /\ rb = RetryStart(maxRetries)
    /\ callLog = <<>>
    /\ PipeIdle
    /\ PrefsIdle
    /\ VerifyIdle
    /\ AccessIdle

SaveSettled(p) == save[p].pc \in {"idle", "returned", "threw"}

\* polling bot: saveRecommendation up to the end of its lookup; an existing
\* row is returned at once
SaveSelect(p, url) ==
    /\ impl = "curator"
    /\ SaveSettled(p)
    /\ save[p].calls < MaxSaves
    /\ LET existing == selectSingle(url)
       IN  save' = [save EXCEPT ![p] =
                       [pc |-> IF existing # 0 THEN "returned" ELSE "inserting",
                        url |-> url, existing |-> existing, ret |-> existing,
                        calls |-> save[p].calls + 1]]
    /\ UNCHANGED recs
    /\ UNCHANGED impl
    /\ UNCHANGED retryVars
    /\ UNCHANGED pipeVars
    /\ UNCHANGED prefVars
    /\ UNCHANGED verifyVars
    /\ UNCHANGED accessVars

\* polling bot: the insert after a lookup that found nothing
SaveInsert(p) ==
    /\ impl = "curator"
    /\ save[p].pc = "inserting"
    /\ IF UrlIsUnique /\ RowsWithUrl(save[p].url) # {}
       THEN /\ save' = [save EXCEPT ![p].pc = "threw"]
            /\ UNCHANGED recs
       ELSE /\ recs' = Append(recs, [url |-> save[p].url, by |-> p])
            /\ save' = [save EXCEPT ![p].pc = "returned", ![p].ret = Len(recs) + 1]
    /\ UNCHANGED impl
    /\ UNCHANGED retryVars
    /\ UNCHANGED pipeVars
    /\ UNCHANGED prefVars
    /\ UNCHANGED verifyVars
    /\ UNCHANGED accessVars

\* serverless handler: one upsert with onConflict: 'url', which the database
\* rejects when url carries no unique constraint
SaveUpsert(p, url) ==
    /\ impl = "webhook"
    /\ SaveSettled(p)
    /\ save[p].calls < MaxSaves
    /\ LET st == [save[p] EXCEPT !.url = url, !.existing = 0, !.ret = 0,
                                 !.calls = save[p].calls + 1]
       IN  IF ~UrlIsUnique
           THEN /\ save' = [save EXCEPT ![p] = [st EXCEPT !.pc = "threw"]]
                /\ UNCHANGED recs
           ELSE IF RowsWithUrl(url) # {}
           THEN /\ save' = [save EXCEPT ![p] =
                                [st EXCEPT !.pc = "returned",
                                           !.ret = CHOOSE k \in RowsWithUrl(url) : TRUE]]
                /\ UNCHANGED recs
           ELSE /\ recs' = Append(recs, [url |-> url, by |-> p])
                /\ save' = [save EXCEPT ![p] =
                                [st EXCEPT !.pc = "returned", !.ret = Len(recs) + 1]]
    /\ UNCHANGED impl
    /\ UNCHANGED retryVars
    /\ UNCHANGED pipeVars
    /\ UNCHANGED prefVars
    /\ UNCHANGED verifyVars
    /\ UNCHANGED accessVars

SaveNext ==
    \/ \E p \in Procs, url \in SaveUrls : SaveSelect(p, url)
    \/ \E p \in Procs : SaveInsert(p)
    \/ \E p \in Procs, url \in SaveUrls : SaveUpsert(p, url)

SpecSave == SaveInit /\ [][SaveNext]_vars

\* ------------------------------------------- specification: access control
\* One user who is not the owner, and the owner.  Every handler is taken from
\* the arrival of its update to its end in one step.  impl "curator" is the
\* polling bot (withAccessControl and its callback_query handler), impl
\* "webhook" the serverless handler (processMessage, processCallback).
Commands == {"start", "recommend", "preferences"}

\* createUser: upsert of { telegram_id, telegram_username, status } on
\* telegram_id; the status it leaves in the row
createUser(isAdmin) == IF isAdmin THEN "approved" ELSE "pending"

\* const user = await getUser(telegramId) || await createUser(..., false)
getOrCreateUser(status) == IF status = "none" THEN createUser(FALSE) ELSE status

\* handleStart: the status it leaves in the user's row
handleStart(i, status) ==
    IF i = "webhook" THEN createUser(FALSE) ELSE getOrCreateUser(status)

\* a message of the user: what the access check and the command handler
\* leave behind
processMessage(i, a, command) ==
    LET status == getOrCreateUser(a.status)
        gated == [a EXCEPT !.status = status]
        denied == gated
        pending == [gated EXCEPT !.requests = a.requests + 1]
        handled ==
            IF command = "start"
            THEN [gated EXCEPT !.status = handleStart(i, status)]
            ELSE IF command = "recommend"
            THEN [gated EXCEPT !.keyboards = a.keyboards + 1,
                               !.last = [NoUpdate EXCEPT !.ranRecommend = TRUE]]
            ELSE gated
    IN  IF i = "webhook" /\ command = "start" THEN handled
        ELSE IF status = "blocked" THEN denied
        ELSE IF status = "pending" THEN pending
        ELSE handled

\* a rate:<id>:<rating>[:reroll] callback of the user
processCallback(i, a, flag) ==
    IF i = "curator" /\ a.status # "approved" THEN a
    ELSE IF a.status = "none" THEN a
    ELSE [a EXCEPT !.keyboards = IF flag = "reroll" THEN a.keyboards ELSE a.keyboards - 1,
                   !.last = [NoUpdate EXCEPT !.ratingStored = TRUE,
                                             !.ranRecommend = (flag = "reroll")]]

\* an approve:<id> / deny:<id> callback: approveUser / blockUser update the
\* row when the sender is the owner
handleApprovalCallback(sender, a, action) ==
    IF sender # "owner" THEN a
    ELSE IF a.status = "none" THEN a
    ELSE [a EXCEPT !.status = IF action = "approve" THEN "approved" ELSE "blocked"]

\* the record of the update just handled
Handled(a, actor, event) ==
    [a EXCEPT !.events = acc.events + 1,
              !.last = [a.last EXCEPT !.actor = actor, !.event = event,
                                      !.statusBefore = acc.status]]

AccessInit ==
    /\ impl \in {"curator", "webhook"}
    /\ acc = NoAccess
    /\ maxRetries = DefaultMaxRetries(impl)
    /\ rb = RetryStart(maxRetries)
    /\ callLog = <<>>
    /\ PipeIdle
    /\ PrefsIdle
    /\ VerifyIdle
    /\ SaveIdle

AccessFrame ==
    /\ UNCHANGED impl
    /\ UNCHANGED retryVars
    /\ UNCHANGED pipeVars
    /\ UNCHANGED prefVars
    /\ UNCHANGED verifyVars
    /\ UNCHANGED saveVars

\* the user sends a command
UserMessage(command) ==
    /\ acc.events < MaxEvents
    /\ acc' = Handled(processMessage(impl, [acc EXCEPT !.last = NoUpdate], command),
                      "user", command)
    /\ AccessFrame

\* the user presses a button of a rating keyboard it holds
UserRates(flag) ==
    /\ acc.events < MaxEvents
    /\ acc.keyboards > 0
    /\ acc' = Handled(processCallback(impl, [acc EXCEPT !.last = NoUpdate], flag),
                      "user", IF flag = "reroll" THEN "reroll" ELSE "rate")
    /\ AccessFrame

\* the owner presses Allow or Deny on an access request; the request message
\* is edited and loses its buttons
OwnerDecides(action) ==
    /\ acc.events < MaxEvents
    /\ acc.requests > 0
    /\ acc' = Handled([handleApprovalCallback("owner", [acc EXCEPT !.last = NoUpdate], action)
                          EXCEPT !.requests = acc.requests - 1],
                      "owner", action)
    /\ AccessFrame

\* the user sends an approve:<id> or deny:<id> callback itself
UserDecides(action) ==
    /\ acc.events < MaxEvents
    /\ acc' = Handled(handleApprovalCallback("user", [acc EXCEPT !.last = NoUpdate], action),
                      "user", action)
    /\ AccessFrame

AccessNext ==
    \/ \E command \in Commands : UserMessage(command)
    \/ \E flag \in {"none", "reroll"} : UserRates(flag)
    \/ \E action \in {"approve", "deny"} : OwnerDecides(action)
    \/ \E action \in {"approve", "deny"} : UserDecides(action)

SpecAccess == AccessInit /\ [][AccessNext]_vars

FairSpecRetry ==
    /\ SpecRetry
    /\ WF_vars(RetryCallReturns \/ RetryCallThrows)
    /\ WF_vars(RetryTimerFires)

\* ======================================================== claims C1 .. C10

PrimaryInvalidAltValid ==
    /\ pc = "delivered"
    /\ ~verifyLog[1].isValid
    /\ Len(verifyLog) > 1
    /\ verifyLog[Len(verifyLog)].isValid

\* C1 (as stated): when the primary's verification is invalid and an
\* alternative's verification is valid, the original primary is still in the
\* alternatives list of the delivered article.
C1_PrimaryKeptInAlternatives ==
    PrimaryInvalidAltValid =>
        \E j \in 1..Len(delivered.alternatives) : delivered.alternatives[j].id = articles[1].id

\* C1 (amended): when the primary's verification is invalid and an
\* alternative's verification is valid, the delivered alternatives are the
\* original alternatives without the promoted one, in their original order,
\* and the original primary is not among them.
C1_AlternativesMinusPromoted ==
    PrimaryInvalidAltValid =>
        LET k == Len(verifyLog) - 1
        IN  /\ delivered.primary = Alternatives[k]
            /\ delivered.alternatives =
                   SubSeq(Alternatives, 1, k - 1) \o SubSeq(Alternatives, k + 1, Len(Alternatives))
            /\ \A j \in 1..Len(delivered.alternatives) :
                   delivered.alternatives[j].id # articles[1].id

C1_Witness ==
    /\ PrimaryInvalidAltValid
    /\ Len(verifyLog) = 3
    /\ Len(delivered.alternatives) = 1
    /\ delivered.alternatives[1] = articles[2]

\* C2: the alternatives are verified one at a time in list order, only after
\* an invalid primary; the delivered primary is the lowest-index alternative
\* whose verification is valid; a valid primary is delivered unchanged and no
\* alternative is verified.
C2_AlternativesVerifiedInOrder ==
    /\ \A k \in 1..Len(verifyLog) :
          /\ verifyLog[k].id = articles[k].id
          /\ k < Len(verifyLog) => ~verifyLog[k].isValid
    /\ (pc = "delivered" /\ verifyLog[1].isValid) =>
          /\ Len(verifyLog) = 1
          /\ delivered.primary = articles[1]
          /\ delivered.alternatives = Tail(articles)
    /\ (pc = "delivered" /\ ~verifyLog[1].isValid /\ Len(articles) > 1) =>
          IF verifyLog[Len(verifyLog)].isValid
          THEN delivered.primary = articles[Len(verifyLog)]
          ELSE Len(verifyLog) = Len(articles) /\ delivered.primary = articles[1]

C2_Witness ==
    /\ pc = "delivered"
    /\ Len(articles) = 3
    /\ Len(verifyLog) = 2
    /\ ~verifyLog[1].isValid
    /\ verifyLog[2].isValid
    /\ delivered.primary = articles[2]

DedupThrown == thrown = "No articles found after deduplication"
Resolved == ResolvedInIdeaOrder(ideasToUse, lookups)

\* C3 (as stated): the duplicate-URL filter never leaves an empty candidate
\* set: when every resolved URL is already seen the call returns the
\* unfiltered articles instead of throwing.
C3_UrlFilterFallsBack == ~DedupThrown

\* C3 (amended): in the two-step curator of services/curator.js the
\* duplicate-URL filter has no fallback: the call returns exactly the resolved
\* articles whose URL is not in existingUrls, and when every resolved URL is
\* in existingUrls it throws "No articles found after deduplication".
C3_UrlFilterThrowsWhenAllSeen ==
    impl = "curator" =>
        /\ (pc = "generated" /\ Len(lookups) > 0) =>
              /\ Len(articles) > 0
              /\ \A k \in 1..Len(articles) : ~InSeq(articles[k].url, existingUrls)
              /\ \A k \in 1..Len(Resolved) :
                    ~InSeq(Resolved[k].url, existingUrls) => InSeq(Resolved[k], articles)
        /\ DedupThrown =>
              /\ Len(Resolved) > 0
              /\ \A k \in 1..Len(Resolved) : InSeq(Resolved[k].url, existingUrls)

C3_Witness ==
    /\ DedupThrown
    /\ Len(lookups) = 2
    /\ lookups[1].state = "found"
    /\ lookups[2].state = "null"

\* C4 (as stated): the returned sequence lists the articles in the order of
\* their Stage A ideas, whatever lookups fail and in whatever order they complete.
C4_IdeaIndexOrder ==
    pc = "generated" =>
        \A j, k \in 1..Len(articles) : j < k => articles[j].id < articles[k].id

\* C4 (amended): the returned sequence does not depend on the completion
\* order of the lookups; in the webhook copy it is in idea order, and in
\* services/curator.js the articles with a found URL come first, in idea
\* order, followed by the search-fallback articles, in idea order.
C4_FoundFirstThenIdeaOrder ==
    pc = "generated" =>
        \A j, k \in 1..Len(articles) : j < k =>
            IF impl = "webhook"
            THEN articles[j].id < articles[k].id
            ELSE /\ articles[j].is_search_fallback => articles[k].is_search_fallback
                 /\ (articles[j].is_search_fallback = articles[k].is_search_fallback)
                        => articles[j].id < articles[k].id

C4_Witness ==
    /\ pc = "generated"
    /\ impl = "curator"
    /\ outOfOrder
    /\ Len(articles) = 3
    /\ articles[1].id = 2
    /\ articles[2].id = 3
    /\ articles[3].id = 1

SeenListsEmpty == existingUrls = <<>> /\ existingTitles = <<>>
IsHttpUrl(u) == u.scheme \in {"http", "https"} /\ u.host # ""

\* C5: with empty seen lists and n >= 1 ideas, generateRecommendation returns
\* exactly n articles, one per idea, each with a valid absolute http(s) URL.
C5_OneArticlePerIdea ==
    (SeenListsEmpty /\ Len(ideas) >= 1) =>
        /\ pc # "failed"
        /\ pc \in {"generated", "verifyAlts", "delivered"} =>
              /\ Len(articles) = Len(ideas)
              /\ \A i \in 1..Len(ideas) : \E k \in 1..Len(articles) : articles[k].id = ideas[i].id
              /\ \A k \in 1..Len(articles) : IsHttpUrl(articles[k].url)

C5_Witness ==
    /\ SeenListsEmpty
    /\ pc = "generated"
    /\ Len(ideas) = 3
    /\ Len(articles) = 3
    /\ \E k \in 1..3 : lookups[k].why = "badurl"
    /\ \E k \in 1..3 : lookups[k].why = "found"

IsGoogleSearchUrl(u, idea) ==
    /\ u.scheme = "https"
    /\ u.host = "www.google.com"
    /\ u.path = "/search?q="
    /\ u.q = idea.title

\* C6: with empty seen lists, failed Stage B lookups never make the call
\* throw: every failed idea is output with is_search_fallback = TRUE and a
\* Google search URL, every idea whose lookup succeeded keeps the found URL
\* without the flag.
C6_FailedLookupsFallBack ==
    (SeenListsEmpty /\ Len(ideasToUse) > 0) =>
        /\ pc # "failed"
        /\ pc = "generated" =>
              \A k \in 1..Len(ideasToUse) :
                 \E j \in 1..Len(articles) :
                    /\ articles[j].id = ideasToUse[k].id
                    /\ lookups[k].state = "null" =>
                          /\ articles[j].is_search_fallback
                          /\ IsGoogleSearchUrl(articles[j].url, ideasToUse[k])
                    /\ lookups[k].state = "found" =>
                          /\ ~articles[j].is_search_fallback
                          /\ articles[j].url = lookups[k].url

C6_Witness ==
    /\ SeenListsEmpty
    /\ pc = "generated"
    /\ Len(lookups) = 3
    /\ lookups[1].why = "exhausted"
    /\ lookups[2].why = "unparsable"
    /\ lookups[3].why = "badurl"
    /\ \A k \in 1..3 : articles[k].is_search_fallback

RateLimitShaped(e) == e.status = 429 \/ e.msg = "rate" \/ e.msg = "quota"
LastCall == callLog[Len(callLog)]

\* C7: retryWithBackoff retries exactly the rate-limit-shaped errors (status
\* 429, message containing "rate" or "quota") while attempts remain; any
\* other error is rethrown at once, with no delay and no further attempt.
C7_RetriesExactlyRateLimitErrors ==
    (Len(callLog) > 0 /\ ~LastCall.ok) =>
        IF RateLimitShaped(LastCall.error) /\ Len(callLog) < maxRetries
        THEN rb.pc \in {"wait", "call"} /\ Len(rb.delays) = Len(callLog)
        ELSE rb.pc = "thrown" /\ Len(rb.delays) = Len(callLog) - 1

BackoffDelays == <<2000, 4000, 8000, 16000, 32000>>

C8_Safety ==
    /\ rb.calls = Len(callLog)
    /\ rb.calls <= maxRetries
    /\ rb.delays = SubSeq(BackoffDelays, 1, Len(rb.delays))
    /\ rb.pc = "call" => Len(rb.delays) = rb.calls
    /\ rb.pc = "wait" => Len(rb.delays) = rb.calls
    /\ rb.pc = "returned" =>
          /\ LastCall.ok
          /\ rb.value = LastCall.value
          /\ \A j \in 1..(Len(callLog) - 1) : ~callLog[j].ok
          /\ Len(rb.delays) = rb.calls - 1
    /\ rb.pc = "thrown" =>
          /\ rb.calls >= 1
          /\ ~LastCall.ok
          /\ rb.lastError = LastCall.error
          /\ Len(rb.delays) = rb.calls - 1

\* C8: retryWithBackoff always terminates: at most maxRetries invocations of
\* the wrapped call, a wait of initialDelayMs * 2^(k-1) before attempt k+1,
\* ending with the first successful result or the error of the last attempt.
C8_BoundedBackoffTerminates == []C8_Safety /\ <>RetryDone(rb)

C8_Witness ==
    /\ impl = "gemini"
    /\ maxRetries = 3
    /\ rb.pc = "thrown"
    /\ rb.calls = 3
    /\ rb.delays = <<2000, 4000>>

ClampedSum(current, delta) ==
    IF current + delta > 100 THEN 100
    ELSE IF current + delta < 0 THEN 0
    ELSE current + delta

\* C9: after any sequence of setUserPreference and updateUserPreference
\* operations every stored weight lies in [0,100]; updateUserPreference
\* stores clamp(current + delta, 0, 100): 98 with +4 gives 100, 2 with -6
\* gives 0.
C9_WeightsClamped ==
    /\ \A t \in Tags : prefs[t].present => (0 <= prefs[t].weight /\ prefs[t].weight <= 100)
    /\ lastWrite.tag # "none" =>
          /\ lastWrite.stored = ClampedSum(lastWrite.current, lastWrite.delta)
          /\ (lastWrite.current = 98 /\ lastWrite.delta = 4) => lastWrite.stored = 100
          /\ (lastWrite.current = 2 /\ lastWrite.delta = -6) => lastWrite.stored = 0

C9_Witness ==
    /\ lastWrite.current = 98
    /\ lastWrite.delta = 4
    /\ lastWrite.stored = 100
    /\ prefs[lastWrite.tag].weight = 100

ImpactTable == [r \in 0..5 |-> CASE r = 0 -> -6 [] r = 1 -> -4 [] r = 2 -> -2
                                 [] r = 3 -> 0 [] r = 4 -> 2 [] r = 5 -> 4]
ImpactComputed(p) == upd[p].via = "export" \/ upd[p].rating > 0

\* C10: calculateImpact maps the ratings 0,1,2,3,4,5 to -6,-4,-2,0,2,4
\* and is monotonic non-decreasing in the rating.
C10_ImpactTable ==
    /\ \A p \in Procs : ImpactComputed(p) => upd[p].impact = ImpactTable[upd[p].rating]
    /\ \A p, q \in Procs : (ImpactComputed(p) /\ ImpactComputed(q)) =>
          (upd[p].rating <= upd[q].rating => upd[p].impact <= upd[q].impact)

C10_Witness ==
    /\ ImpactComputed(1) /\ upd[1].rating = 0 /\ upd[1].impact = -6
    /\ ImpactComputed(2) /\ upd[2].rating = 5 /\ upd[2].impact = 4

\* ======================================================= claims C11 .. C20

ArticleTags == {RecTags[k] : k \in 1..Len(RecTags)}
WeightOrDefault(row) == IF row.present THEN row.weight ELSE 50
RatingApplied(p) ==
    /\ upd[p].via = "callback"
    /\ upd[p].pc = "idle"
    /\ upd[p].rating \in 1..5

\* the single rating of a freshly initialized profile (every tag at 50)
C11_OneRating ==
    \A p \in Procs : (opCount = 1 /\ RatingApplied(p)) =>
        \A t \in Tags :
            prefs[t].weight = IF t \in ArticleTags
                              THEN ClampedSum(50, (upd[p].rating - 3) * 2)
                              ELSE 50

\* one upsert made on behalf of a rating callback
C11_Upsert ==
    \A p \in Procs :
        (upd[p].pc = "upsert" /\ upd[p].via = "callback" /\ upd'[p] # upd[p]) =>
            LET tag == Head(upd[p].queue)
            IN  /\ upd[p].rating \in 1..5
                /\ tag \in ArticleTags
                /\ prefs'[tag].weight =
                       ClampedSum(WeightOrDefault(upd[p].existing), (upd[p].rating - 3) * 2)
                /\ \A t \in Tags \ {tag} : prefs'[t] = prefs[t]
                /\ upd'[p].queue = Tail(upd[p].queue)

\* C11: a rating r in 1..5 applies the same undivided impact (r - 3) * 2 to
\* each tag of the rated article: every upsert made for the rating stores
\* clamp(old + impact, 0, 100) for one article tag, old being 50 when the tag
\* has no row, and leaves every other tag alone; rated alone on a profile
\* with every tag at 50, a 5 on [Economics, History] leaves both at 54 and
\* the tags not on the article at 50.
C11_SameImpactEachTag == []C11_OneRating /\ [][C11_Upsert]_vars

C11_Witness ==
    /\ opCount = 1
    /\ RatingApplied(1)
    /\ upd[1].rating = 5
    /\ prefs["Economics"].weight = 54
    /\ prefs["History"].weight = 54
    /\ prefs["Physics"].weight = 50

SkipStep ==
    /\ lastOp'.kind = "rate"
    /\ lastOp'.rating = 0
    /\ opCount' = opCount + 1

ProfileEmpty == \A t \in Tags : ~prefs[t].present

RateStep ==
    /\ lastOp'.kind = "rate"
    /\ opCount' = opCount + 1

\* C19: a user-recommendation link is rated at most once: once a rating is
\* stored for the (user, recommendation) pair, a later rating callback for
\* the same pair neither changes the stored rating nor starts another weight
\* update of the article's tags.
C19_RatedAtMostOnce ==
    [][(RateStep /\ userRec # NoRating) =>
          (userRec' = userRec /\ upd'[lastOp'.p].pc = "idle")]_vars

\* a URL of search-fallback shape: a google.com host and a /search? path
SearchShaped(u) ==
    /\ u.scheme \in {"http", "https"}
    /\ u.host \in {"www.google.com", "scholar.google.com"}
    /\ u.path = "/search?q="

Verified == vf.pc = "returned" /\ Len(vf.log) > 0
LastUrl == vf.candidates[Len(vf.log)]
LastResult == vf.log[Len(vf.log)]
RequestsMade == {vf.requests[n] : n \in 1..Len(vf.requests)}

\* C13: for every URL of search-fallback shape verifyLink (linkVerifier.js
\* and the two-step serverless handler) returns isValid = true with
\* confidence "low" and isSearchFallback set, and sends neither the HEAD nor
\* the GET request.
C13_SearchFallbackShortCircuit ==
    impl \in {"curator", "webhook"} =>
        /\ \A r \in RequestsMade : ~SearchShaped(vf.candidates[r.k])
        /\ (Verified /\ SearchShaped(LastUrl)) =>
              /\ LastResult.isValid
              /\ LastResult.confidence = "low"
              /\ LastResult.isSearchFallback

C13_Witness ==
    /\ impl = "curator"
    /\ vf.entry = "findFirstValidLink"
    /\ Verified
    /\ vf.candidates = <<U2, SearchUrl(Idea(1))>>
    /\ LastUrl = SearchUrl(Idea(1))
    /\ \A r \in RequestsMade : r.k = 1
    /\ LastResult.isValid
    /\ LastResult.confidence = "low"
    /\ LastResult.isSearchFallback

\* C14: for a URL that is not search-fallback-shaped, a request answered
\* with HTTP 404 makes verifyLink return isValid = false, whatever the domain
\* class (trusted, paywall-listed or neither) and whether it was the HEAD
\* request that returned 404 or the GET request after HEAD threw.
C14_NotFoundIsInvalid ==
    (Verified /\ ~SearchShaped(LastUrl) /\ (vf.head.status = 404 \/ vf.get.status = 404)) =>
        ~LastResult.isValid

C14_Witness ==
    /\ impl = "curator"
    /\ Verified
    /\ LastUrl = U1
    /\ vf.head.kind = "threw"
    /\ vf.get.status = 404
    /\ ~LastResult.isValid

\* C15: for a URL that is not search-fallback-shaped and whose server answers
\* the GET with HTTP 401 or 403, verifyLink returns isValid = true,
\* isPaywall = true and confidence "medium", for every domain class and in
\* every entry point's verifier.
C15_ForbiddenIsPaywall ==
    (Verified /\ ~SearchShaped(LastUrl) /\ vf.get.status \in {401, 403}) =>
        /\ LastResult.isValid
        /\ LastResult.isPaywall
        /\ LastResult.confidence = "medium"

ValidAt == {k \in 1..Len(vf.log) : vf.log[k].isValid}

\* C16: findFirstValidLink verifies the candidates one after the other in
\* list order and returns the candidate of lowest index whose verification is
\* valid, with that index, without verifying any later candidate; it returns
\* null (index -1 here) when no candidate is valid, the empty list included.
C16_FirstValidInOrder ==
    vf.entry = "findFirstValidLink" =>
        /\ \A m, n \in 1..Len(vf.requests) : m <= n => vf.requests[m].k <= vf.requests[n].k
        /\ \A r \in RequestsMade : r.k <= Len(vf.log) + 1
        /\ vf.pc # "returned" => ValidAt = {}
        /\ vf.pc = "returned" =>
              /\ \A r \in RequestsMade : r.k <= Len(vf.log)
              /\ IF ValidAt # {}
                 THEN /\ ValidAt = {Len(vf.log)}
                      /\ vf.index = Len(vf.log) - 1
                 ELSE /\ vf.index = -1
                      /\ Len(vf.log) = Len(vf.candidates)

C16_Witness ==
    /\ vf.entry = "findFirstValidLink"
    /\ vf.pc = "returned"
    /\ Len(vf.candidates) = 2
    /\ vf.candidates[1] = vf.candidates[2]
    /\ ~vf.log[1].isValid
    /\ vf.log[2].isValid
    /\ vf.index = 1

\* C17: whenever generateRecommendation returns without throwing, the
\* returned primary has a non-empty url and a non-empty title, for every
\* Stage A output that parses, ideas without a title field included.
C17_PrimaryHasUrlAndTitle ==
    pc = "generated" =>
        /\ articles[1].url # NoUrl
        /\ articles[1].url.scheme \in {"http", "https"}
        /\ articles[1].title # NoTitle

NoneValid == \A k \in 1..Len(verifyLog) : ~verifyLog[k].isValid

C20_OneRecordPerUrl ==
    /\ \A url \in SaveUrls : Cardinality(RowsWithUrl(url)) <= 1
    /\ \A p \in Procs :
          /\ save[p].pc # "threw"
          /\ save[p].pc = "returned" =>
                /\ RowsWithUrl(save[p].url) = {save[p].ret}

\* ======================================================= claims C21 .. C30

\* the domain classes of the allow-lists
TrustedHost(u) == u.scheme # "invalid" /\ u.host = "aeon.co"
PaywallHost(u) == u.scheme # "invalid" /\ u.host = "www.nytimes.com"

\* C21: for a URL on a trusted or paywall-listed domain, every network-level
\* failure of the verification request (DNS failure, connection refused,
\* timeout, TLS error or any other thrown error) makes verifyLink return
\* isValid = true with confidence "low", in linkVerifier.js and in the
\* two-step serverless handler.
C21_ListedDomainFailureIsValidLow ==
    (/\ impl \in {"curator", "webhook"}
     /\ Verified
     /\ TrustedHost(LastUrl) \/ PaywallHost(LastUrl)
     /\ vf.get.kind = "threw") =>
        /\ LastResult.isValid
        /\ LastResult.confidence = "low"

\* C22: for a URL on a paywall-listed domain, every result that
\* linkVerifier.js's verifyLink returns with isValid = true has
\* isPaywall = true, the HEAD PDF short-circuit and the network-error
\* branches included.
C22_PaywallDomainAlwaysFlagged ==
    (/\ impl = "curator"
     /\ Verified
     /\ PaywallHost(LastUrl)
     /\ LastResult.isValid) =>
        LastResult.isPaywall

\* the HEAD probe is inconclusive: it throws, answers outside 2xx/3xx, or
\* succeeds with a non-PDF content type on a domain of neither list
HeadInconclusive(head, u) ==
    \/ head.kind = "threw"
    \/ head.kind = "status" /\ ~(head.status >= 200 /\ head.status < 400)
    \/ /\ head.kind = "status" /\ head.status >= 200 /\ head.status < 400
       /\ head.detail # "pdf"
       /\ ~TrustedHost(u) /\ ~PaywallHost(u)

\* C23: whenever the HEAD probe of linkVerifier.js's verifyLink is
\* inconclusive, verifyLink sends the GET request and takes its verdict from
\* the GET answer; no verdict comes from a non-2xx HEAD answer alone.
C23_InconclusiveHeadFallsBackToGet ==
    (/\ impl = "curator"
     /\ Verified
     /\ HeadInconclusive(vf.head, LastUrl)) =>
        /\ [k |-> Len(vf.log), method |-> "GET"] \in RequestsMade
        /\ vf.get.kind # "none"
        /\ LastResult = verifyLinkOnGet(impl, LastUrl, vf.get)

\* linkVerifier.js's verifyLink returned on a 2xx/3xx GET answer that is no
\* soft 404, with an expected title and a page title both present
TitlesCompared ==
    /\ impl = "curator"
    /\ Verified
    /\ vf.get.kind = "status" /\ vf.get.status >= 200 /\ vf.get.status < 400
    /\ vf.get.detail # "removed"
    /\ vf.expected.words > 0
    /\ vf.page.present

C25_VerifiersAgree ==
    (/\ impl = "curator"
     /\ Verified
     /\ ~SearchShaped(LastUrl)
     /\ vf.get.kind # "none") =>
        /\ verifyLink("webhook", LastUrl, [head |-> vf.head, get |-> vf.get]).isValid
              = LastResult.isValid
        /\ verifyLink("api", LastUrl, [head |-> vf.head, get |-> vf.get]).isValid
              = LastResult.isValid

\* C26: generateRecommendation treats its inputs as read-only: no step of
\* the call changes the caller's preferences array (its elements and their
\* order), the seen-URL list or the seen-title list.
C26_InputsReadOnly ==
    [][/\ preferences' = preferences
       /\ existingUrls' = existingUrls
       /\ existingTitles' = existingTitles]_vars

CountOrDefault(row) == IF row.present THEN row.sample_count ELSE 0

\* update p is about to write a tag that another update has written since p
\* read it, both having read the same row
LostRead(p) ==
    /\ upd[p].pc = "upsert"
    /\ lastWrite.tag = Head(upd[p].queue)
    /\ lastWrite.current = WeightOrDefault(upd[p].existing)
    /\ prefs[lastWrite.tag] = Row(lastWrite.stored, CountOrDefault(upd[p].existing) + 1)

\* C27: updateUserPreference is a read followed by an upsert; when two
\* updates of one tag both read the row before either writes, the later
\* write stores clamp(read weight + its own delta, 0, 100), so the earlier
\* delta is lost, and sample_count ends at the read count plus 1, not plus 2.
C27_LastWriteWins ==
    [][\A p \in Procs :
          (LostRead(p) /\ lastOp'.kind = "upsert" /\ lastOp'.p = p /\ upd'[p] # upd[p]) =>
              /\ prefs'[lastWrite.tag].weight = ClampedSum(lastWrite.current, upd[p].impact)
              /\ prefs'[lastWrite.tag].sample_count = CountOrDefault(upd[p].existing) + 1
              /\ prefs'[lastWrite.tag].sample_count = prefs[lastWrite.tag].sample_count]_vars

C27_Witness ==
    /\ opCount = 2
    /\ upd[1].pc = "idle" /\ upd[1].rating = 5
    /\ upd[2].pc = "idle" /\ upd[2].rating = 1
    /\ prefs["Economics"] = Row(46, 2)
    /\ prefs["History"] = Row(46, 2)

\* C28: a user who is not the owner and whose status is pending or blocked
\* never causes handleRecommend to run and never has a rating stored,
\* whatever messages and callback queries it sends (the reroll button of a
\* message delivered earlier included), in the polling bot and in the
\* serverless handler.
C28_UnapprovedUserIsShutOut ==
    (acc.last.actor = "user" /\ acc.last.statusBefore \in {"pending", "blocked"}) =>
        /\ ~acc.last.ranRecommend
        /\ ~acc.last.ratingStored

\* C29: once the user's row exists its status changes only through an
\* approve or deny callback sent by the owner: such callbacks from anyone
\* else leave it unchanged, and an approved user stays approved and a blocked
\* user stays blocked across any later /start or other command.
C29_StatusChangesOnlyByOwner ==
    [][(acc.status # "none" /\ acc'.status # acc.status) =>
          (acc'.last.actor = "owner" /\ acc'.last.event \in {"approve", "deny"})]_vars

\* C30: whenever the two-step generateRecommendation returns without
\* throwing, neither the primary nor any alternative has a URL contained in
\* the existingUrls list it was given, in every entry point that runs the
\* two-step curator (the polling bot and the serverless handler).
C30_NoSeenUrlReturned ==
    (thrown = "none" /\ pc \in {"generated", "verifyAlts", "delivered"}) =>
        \A k \in 1..Len(articles) : ~InSeq(articles[k].url, existingUrls)

====
